---- MODULE Spec2Model ----
(***************************************************************************)
(* Model of iai-callgrind-runner's sentinel parser                         *)
(* (runner/callgrind/sentinel_parser.rs) and of its report printer         *)
(* (runner/print.rs).                                                      *)
(*                                                                         *)
(*   Spec        SentinelParser::parse, one loop iteration per step         *)
(*   FormatSpec  VerticalFormat::format, one event kind per step            *)
(*   TitleSpec   Header::to_title and Display for Header                    *)
(***************************************************************************)
EXTENDS Integers, Sequences, FiniteSets, TLC

VARIABLES
    \* SentinelParser::parse
    properties,     \* result of parse_header: positions_prototype, costs_prototype
    lines,          \* the lines the iterator has yielded so far, in order
    start_record,   \* TRUE: IN_RECORD, FALSE: SEEKING
    found,
    costs,
    pc,             \* "scan" inside the for loop, "done" after the return
    result,         \* the value parse returned
    \* VerticalFormat::format
    new_costs,      \* the caller's Costs behind the new_costs reference
    old_costs,      \* the caller's Option<&Costs>
    new_cow,        \* format's local Cow over new_costs
    old_cow,        \* format's local Option<Cow> over old_costs
    ek,             \* index of the event kind the for loop is at
    rows,           \* the rows written to the result string so far
    fpc,            \* "loop" inside the for loop, "done" after the return
    \* Header::to_title, Display for Header
    header,
    title,          \* what to_title returned
    shown,          \* what Display::fmt wrote
    tpc

pvars == <<properties, lines, start_record, found, costs, pc, result>>
fvars == <<new_costs, old_costs, new_cow, old_cow, ek, rows, fpc>>
tvars == <<header, title, shown, tpc>>
vars == <<pvars, fvars, tvars>>

(***************************************************************************)
(* Bounds                                                                  *)
(***************************************************************************)
MaxLines == 5

PositionCounts == {0, 1}
EventCounts == {1, 2}
Labels == {"target", "other"}
sentinel == "target"

None == "None"

(***************************************************************************)
(* Report lines.  A line is its leading whitespace (lead) and its          *)
(* whitespace separated tokens.  A token is a number ("12"), a word with   *)
(* no leading digit ("x"), the start of a comment ("#...") or              *)
(* "fn=<label>".                                                           *)
(***************************************************************************)
Num(n) == [t |-> "num", n |-> n, label |-> ""]
Word == [t |-> "word", n |-> 0, label |-> ""]
Hash == [t |-> "hash", n |-> 0, label |-> ""]
Fn(l) == [t |-> "fn", n |-> 0, label |-> l]

Line(lead, toks) == [lead |-> lead, toks |-> toks]

CostLines ==
    { Line(FALSE, <<Num(2)>>),
      Line(FALSE, <<Num(1), Num(2), Num(1)>>),
      Line(FALSE, <<Num(1), Word>>) }

Lines ==
    { Line(TRUE, <<>>),               \* a line of whitespace only
      Line(FALSE, <<Hash>>),          \* "# comment"
      Line(TRUE, <<Hash>>) }          \* "  # indented", not filtered
    \cup { Line(FALSE, <<Fn(l)>>) : l \in Labels }
    \cup CostLines

(***************************************************************************)
(* String operations used by parse                                         *)
(***************************************************************************)
\* p.starts_with('#'), on the untrimmed line
starts_with_hash(line) ==
    /\ ~line.lead
    /\ Len(line.toks) > 0
    /\ line.toks[1].t = "hash"

\* line.trim()
trim(line) == [line EXCEPT !.lead = FALSE]

\* line.is_empty()
is_empty(line) == ~line.lead /\ Len(line.toks) = 0

\* line.strip_prefix("fn=")
strip_prefix_fn(line) ==
    IF ~line.lead /\ Len(line.toks) > 0 /\ line.toks[1].t = "fn"
    THEN line.toks[1].label
    ELSE None

\* line.starts_with(|c| c.is_ascii_digit())
starts_with_ascii_digit(line) ==
    /\ ~line.lead
    /\ Len(line.toks) > 0
    /\ line.toks[1].t = "num"

\* line.split_ascii_whitespace()
split_ascii_whitespace(line) == line.toks

\* Iterator::skip(n)
skip(toks, n) ==
    IF n >= Len(toks) THEN <<>> ELSE SubSeq(toks, n + 1, Len(toks))

\* Sentinel::matches
matches(self, func) == func = self

(***************************************************************************)
(* Costs::add_iter_str: the tokens are added position by position to the   *)
(* counters in declared-event order; a short sequence leaves the trailing  *)
(* counters alone, tokens beyond the declared count are not looked at, a   *)
(* non-numeric token fails.  The counters added before the failing token   *)
(* stay added.                                                             *)
(***************************************************************************)
RECURSIVE AddFrom(_, _, _)
AddFrom(c, toks, i) ==
    IF i > Len(c) \/ i > Len(toks) THEN [costs |-> c, ok |-> TRUE]
    ELSE IF toks[i].t # "num" THEN [costs |-> c, ok |-> FALSE]
    ELSE AddFrom([c EXCEPT ![i] = c[i] + toks[i].n], toks, i + 1)

add_iter_str(c, toks) == AddFrom(c, toks, 1)

(***************************************************************************)
(* The body of the for loop of parse, on the scan state                    *)
(* s = [start_record, found, costs].                                       *)
(***************************************************************************)
\* lines 43-46, without the reset of start_record
OnEmptyLineKeepsRecord(s) == s

\* lines 43-46
OnEmptyLine(s) == [s EXCEPT !.start_record = FALSE]

\* lines 47-58, matching only as long as nothing was found
SeekingFirstOnly(s, line) ==
    LET func == strip_prefix_fn(line) IN
    IF func # None /\ matches(sentinel, func) /\ ~s.found
    THEN [s EXCEPT !.start_record = TRUE, !.found = TRUE]
    ELSE s

\* lines 47-58
Seeking(s, line) ==
    LET func == strip_prefix_fn(line) IN
    IF func # None /\ matches(sentinel, func)
    THEN [s EXCEPT !.start_record = TRUE, !.found = TRUE]
    ELSE s

\* lines 61-75, without the skip of the positions
InRecordNoSkip(s, line, positions) ==
    IF starts_with_ascii_digit(line)
    THEN [s EXCEPT !.costs =
            add_iter_str(s.costs, split_ascii_whitespace(line)).costs]
    ELSE s

\* lines 61-75: the value add_iter_str returns is dropped
InRecord(s, line, positions) ==
    IF starts_with_ascii_digit(line)
    THEN [s EXCEPT !.costs =
            add_iter_str(s.costs, skip(split_ascii_whitespace(line), positions)).costs]
    ELSE s

\* the loop body with every fn= line tested, also inside a record
LoopBodyFnAlways(s, rawline, positions) ==
    LET line == trim(rawline) IN
    IF is_empty(line) THEN OnEmptyLine(s)
    ELSE IF strip_prefix_fn(line) # None
         THEN [s EXCEPT !.start_record = matches(sentinel, strip_prefix_fn(line)),
                        !.found = s.found \/ matches(sentinel, strip_prefix_fn(line))]
    ELSE IF ~s.start_record THEN s
    ELSE InRecord(s, line, positions)

LoopBody(s, rawline, positions) ==
    LET line == trim(rawline) IN
    IF is_empty(line) THEN OnEmptyLine(s)
    ELSE IF ~s.start_record THEN Seeking(s, line)
    ELSE InRecord(s, line, positions)

\* lines 78-86, with the test of found left out
ParseResultIgnoresFound(f, c) == [tag |-> "Ok", costs |-> c, error |-> ""]

\* lines 78-86
ParseResult(f, c) ==
    IF f THEN [tag |-> "Ok", costs |-> c, error |-> ""]
    ELSE [tag |-> "Err", costs |-> <<>>, error |-> "SentinelNotFound"]

NoResult == [tag |-> "none", costs |-> <<>>, error |-> ""]

(***************************************************************************)
(* SentinelParser::parse                                                   *)
(***************************************************************************)
\* parse_header
parse_header(p, k) ==
    [positions_prototype |-> [i \in 1..p |-> "pos"],
     costs_prototype |-> [i \in 1..k |-> 0]]

ParseInit ==
    /\ \E p \in PositionCounts, k \in EventCounts : properties = parse_header(p, k)
    /\ lines = <<>>
    /\ found = FALSE
    /\ costs = properties.costs_prototype
    /\ start_record = FALSE
    /\ pc = "scan"
    /\ result = NoResult

ParseIdle ==
    /\ properties = parse_header(0, 1)
    /\ lines = <<>>
    /\ found = FALSE
    /\ costs = properties.costs_prototype
    /\ start_record = FALSE
    /\ pc = "idle"
    /\ result = NoResult

\* iter.filter(|p| !p.starts_with('#')) drops the line
FilterComment(line) ==
    /\ pc = "scan"
    /\ Len(lines) < MaxLines
    /\ starts_with_hash(line)
    /\ lines' = Append(lines, line)
    /\ UNCHANGED <<properties, start_record, found, costs, pc, result>>
    /\ UNCHANGED <<fvars, tvars>>

LoopIteration(line) ==
    /\ pc = "scan"
    /\ Len(lines) < MaxLines
    /\ ~starts_with_hash(line)
    /\ lines' = Append(lines, line)
    /\ LET s == LoopBody([start_record |-> start_record, found |-> found,
                          costs |-> costs],
                         line, Len(properties.positions_prototype))
       IN /\ start_record' = s.start_record
          /\ found' = s.found
          /\ costs' = s.costs
    /\ UNCHANGED <<properties, pc, result>>
    /\ UNCHANGED <<fvars, tvars>>

\* the iterator is exhausted
Finish ==
    /\ pc = "scan"
    /\ pc' = "done"
    /\ result' = ParseResult(found, costs)
    /\ UNCHANGED <<properties, lines, start_record, found, costs>>
    /\ UNCHANGED <<fvars, tvars>>

(***************************************************************************)
(* Costs as the printer reads it: the counters by event kind and the       *)
(* summarized flag.  A derived kind is among the counters only after       *)
(* make_summary.                                                           *)
(***************************************************************************)
MaxCost == 2

ExampleCosts == {100, 150}
CostValues == (0..MaxCost) \cup ExampleCosts

\* VerticalFormat::default
event_kinds ==
    << "Ir", "L1hits", "LLhits", "RamHits", "TotalRW", "EstimatedCycles",
       "SysCount", "SysTime", "SysCpuTime", "Ge", "Bc", "Bcm", "Bi", "Bim",
       "ILdmr", "DLdmr", "DLdmw", "AcCost1", "AcCost2", "SpLoss1", "SpLoss2" >>

DerivedKinds == {"L1hits", "LLhits", "RamHits", "TotalRW", "EstimatedCycles"}

\* the raw counters make_summary needs
SummaryInputs ==
    {"Ir", "Dr", "Dw", "I1mr", "D1mr", "D1mw", "ILmr", "DLmr", "DLmw"}

\* EventKind::is_derived
is_derived(kind) == kind \in DerivedKinds

Some(v) == [some |-> TRUE, v |-> v]
Absent == [some |-> FALSE, v |-> 0]

MkCosts(f, s) == [counters |-> f, summarized |-> s]
NoCosts == MkCosts([k \in {} |-> 0], FALSE)

\* Costs::cost_by_kind
cost_by_kind(c, kind) ==
    IF kind \in DOMAIN c.counters THEN Some(c.counters[kind]) ELSE Absent

\* Costs::is_summarized
is_summarized(c) == c.summarized

\* Costs::make_summary: once, from the raw counters; fails, changing nothing,
\* when a raw input is absent
make_summary(c) ==
    IF c.summarized THEN [costs |-> c, ok |-> TRUE]
    ELSE IF ~(SummaryInputs \subseteq DOMAIN c.counters)
    THEN [costs |-> c, ok |-> FALSE]
    ELSE LET r == c.counters
             ram_hits == r["ILmr"] + r["DLmr"] + r["DLmw"]
             l1_miss == r["I1mr"] + r["D1mr"] + r["D1mw"]
             l3_hits == l1_miss - ram_hits
             total_rw == r["Ir"] + r["Dr"] + r["Dw"]
             l1_hits == total_rw - ram_hits - l3_hits
             cycles == l1_hits + 5 * l3_hits + 35 * ram_hits
             d == [k \in DerivedKinds |->
                     CASE k = "L1hits" -> l1_hits
                       [] k = "LLhits" -> l3_hits
                       [] k = "RamHits" -> ram_hits
                       [] k = "TotalRW" -> total_rw
                       [] OTHER -> cycles]
         IN [costs |-> MkCosts([k \in DOMAIN r \cup DerivedKinds |->
                                   IF k \in DerivedKinds THEN d[k] ELSE r[k]],
                               TRUE),
             ok |-> TRUE]

(***************************************************************************)
(* The floats of the deltas: sign, class and, when finite, the magnitude   *)
(* num / den.                                                              *)
(***************************************************************************)
Finite(sign, num, den) == [class |-> "finite", sign |-> sign, num |-> num, den |-> den]
Infinite(sign) == [class |-> "inf", sign |-> sign, num |-> 1, den |-> 0]
NaN == [class |-> "nan", sign |-> 1, num |-> 0, den |-> 0]

\* util::percentage_diff: (new - old) / old * 100
percentage_diff(new, old) ==
    IF old = 0
    THEN IF new = 0 THEN NaN ELSE Infinite(1)
    ELSE IF new >= old
         THEN Finite(1, (new - old) * 100, old)
         ELSE Finite(-1, (old - new) * 100, old)

\* util::factor_diff: new / old when new >= old, else -(old / new)
factor_diff(new, old) ==
    IF new >= old
    THEN IF old = 0
         THEN IF new = 0 THEN NaN ELSE Infinite(1)
         ELSE Finite(1, new, old)
    ELSE IF new = 0 THEN Infinite(-1) ELSE Finite(-1, old, new)

is_infinite(float) == float.class = "inf"
is_sign_positive(float) == float.sign = 1

Field(text, fill, unit, emphasis) ==
    [text |-> text, fill |-> fill, unit |-> unit, emphasis |-> emphasis]
NoField == Field(NaN, "", "", "none")

\* Formatter::format_float with the two colours exchanged
format_float_swapped(float, unit) ==
    IF is_infinite(float)
    THEN IF is_sign_positive(float)
         THEN Field(float, "+", "", "bright_red")
         ELSE Field(float, "-", "", "bright_green")
    ELSE IF is_sign_positive(float)
         THEN Field(float, " ", unit, "bright_green")
         ELSE Field(float, " ", unit, "bright_red")

\* Formatter::format_float: an infinite value is the signed_short text
\* centred in nine columns of '+' or '-', a finite one the signed number and
\* its unit
format_float(float, unit) ==
    IF is_infinite(float)
    THEN IF is_sign_positive(float)
         THEN Field(float, "+", "", "bright_red")
         ELSE Field(float, "-", "", "bright_green")
    ELSE IF is_sign_positive(float)
         THEN Field(float, " ", unit, "bright_red")
         ELSE Field(float, " ", unit, "bright_green")

(***************************************************************************)
(* VerticalFormat::format.  The loop state st holds the caller's two       *)
(* values (new_ref, old_ref), the two Cows and the rows written.           *)
(***************************************************************************)
Borrowed == [borrowed |-> TRUE, owned |-> NoCosts]
Owned(c) == [borrowed |-> FALSE, owned |-> c]

\* Option<&Costs>
NoneCosts == [some |-> FALSE, val |-> NoCosts]
SomeCosts(c) == [some |-> TRUE, val |-> c]

\* Deref of a Cow
Deref(cow, ref) == IF cow.borrowed THEN ref ELSE cow.owned

not_available == "N/A"
unknown == "*********"
no_change == "No change"

\* make_summary through the reference, with no copy taken
NewMakeSummaryInPlace(st) ==
    IF st.new_cow.borrowed
    THEN [st EXCEPT !.new_ref = make_summary(st.new_ref).costs]
    ELSE [st EXCEPT !.new_cow = Owned(make_summary(st.new_cow.owned).costs)]

\* line 170: new_costs.to_mut().make_summary(), the result dropped
NewToMutMakeSummary(st) ==
    [st EXCEPT !.new_cow =
        Owned(make_summary(Deref(st.new_cow, st.new_ref)).costs)]

\* line 173: old_costs.as_mut().map(|c| c.to_mut().make_summary())
OldToMutMakeSummary(st) ==
    IF st.old_ref.some
    THEN [st EXCEPT !.old_cow =
            Owned(make_summary(Deref(st.old_cow, st.old_ref.val)).costs)]
    ELSE st

\* lines 168-175
Summarize(st, kind) ==
    IF is_derived(kind)
    THEN LET s1 == IF ~is_summarized(Deref(st.new_cow, st.new_ref))
                   THEN NewToMutMakeSummary(st)
                   ELSE st
         IN IF ~(IF s1.old_ref.some
                 THEN is_summarized(Deref(s1.old_cow, s1.old_ref.val))
                 ELSE TRUE)
            THEN OldToMutMakeSummary(s1)
            ELSE s1
    ELSE st

\* lines 176-184
Description(kind) ==
    CASE kind = "Ir" -> "Instructions:"
      [] kind = "L1hits" -> "L1 Hits:"
      [] kind = "LLhits" -> "L2 Hits:"
      [] kind = "RamHits" -> "RAM Hits:"
      [] kind = "TotalRW" -> "Total read+write:"
      [] kind = "EstimatedCycles" -> "Estimated Cycles:"
      [] OTHER -> kind

\* a cost column: new_cost.to_string(), or not_available for an absent cost
Shown(cost) ==
    IF cost.some THEN [text |-> "number", v |-> cost.v]
    ELSE [text |-> not_available, v |-> 0]

Row(kind, new, old, delta, pct, factor) ==
    [kind |-> kind, description |-> Description(kind), new |-> Shown(new),
     old |-> Shown(old), delta |-> delta, pct |-> pct, factor |-> factor]

\* lines 185-224 with the (None, Some) arm missing
MatchRowNoOldOnly(kind, new_cost, old_cost) ==
    IF ~new_cost.some /\ old_cost.some
    THEN <<>>
    ELSE IF new_cost.some /\ ~old_cost.some
    THEN << Row(kind, new_cost, Absent, unknown, NoField, NoField) >>
    ELSE IF new_cost.some /\ old_cost.some /\ new_cost.v = old_cost.v
    THEN << Row(kind, new_cost, old_cost, no_change, NoField, NoField) >>
    ELSE IF new_cost.some /\ old_cost.some
    THEN << Row(kind, new_cost, old_cost, "",
                format_float(percentage_diff(new_cost.v, old_cost.v), "%"),
                format_float(factor_diff(new_cost.v, old_cost.v), "x")) >>
    ELSE <<>>

\* lines 185-224: the row written for the kind, if any
MatchRow(kind, new_cost, old_cost) ==
    IF ~new_cost.some /\ old_cost.some
    THEN << Row(kind, Absent, old_cost, unknown, NoField, NoField) >>
    ELSE IF new_cost.some /\ ~old_cost.some
    THEN << Row(kind, new_cost, Absent, unknown, NoField, NoField) >>
    ELSE IF new_cost.some /\ old_cost.some /\ new_cost.v = old_cost.v
    THEN << Row(kind, new_cost, old_cost, no_change, NoField, NoField) >>
    ELSE IF new_cost.some /\ old_cost.some
    THEN << Row(kind, new_cost, old_cost, "",
                format_float(percentage_diff(new_cost.v, old_cost.v), "%"),
                format_float(factor_diff(new_cost.v, old_cost.v), "x")) >>
    ELSE <<>>

\* lines 167-225: one iteration of the loop over event_kinds
FormatEvent(st, kind) ==
    LET s1 == Summarize(st, kind)
        new_cost == cost_by_kind(Deref(s1.new_cow, s1.new_ref), kind)
        old_cost == IF s1.old_ref.some
                    THEN cost_by_kind(Deref(s1.old_cow, s1.old_ref.val), kind)
                    ELSE Absent
    IN [s1 EXCEPT !.rows = s1.rows \o MatchRow(kind, new_cost, old_cost)]

\* lines 159-161
FormatStart(n, o) ==
    [new_ref |-> n, old_ref |-> o, new_cow |-> Borrowed, old_cow |-> Borrowed,
     rows |-> <<>>]

\* the Costs the callers hand to format: short event lists, and the cache
\* events with l1 hits a, l3 hits b and ram hits c, summarized or not
SimpleCosts ==
    { MkCosts(f, FALSE) :
        f \in UNION { [ks -> CostValues] : ks \in {{}, {"Ir"}, {"Ir", "Bc"}} } }

CacheCosts(a, b, c) ==
    MkCosts([k \in SummaryInputs |->
                CASE k = "Ir" -> a + b + c
                  [] k = "I1mr" -> b + c
                  [] k = "ILmr" -> c
                  [] OTHER -> 0],
            FALSE)

CacheInputs ==
    { CacheCosts(a, b, c) : a \in 0..MaxCost, b \in 0..MaxCost, c \in 0..MaxCost }

CostsInputs ==
    SimpleCosts \cup CacheInputs \cup { make_summary(c).costs : c \in CacheInputs }

FormatInit ==
    /\ new_costs \in CostsInputs
    /\ old_costs \in {NoneCosts} \cup { SomeCosts(c) : c \in CostsInputs }
    /\ new_cow = Borrowed
    /\ old_cow = Borrowed
    /\ ek = 1
    /\ rows = <<>>
    /\ fpc = "loop"

FormatIdle ==
    /\ new_costs = NoCosts
    /\ old_costs = NoneCosts
    /\ new_cow = Borrowed
    /\ old_cow = Borrowed
    /\ ek = 1
    /\ rows = <<>>
    /\ fpc = "idle"

FormatLoop ==
    /\ fpc = "loop"
    /\ ek <= Len(event_kinds)
    /\ LET st == FormatEvent([new_ref |-> new_costs, old_ref |-> old_costs,
                              new_cow |-> new_cow, old_cow |-> old_cow,
                              rows |-> rows],
                             event_kinds[ek])
       IN /\ new_costs' = st.new_ref
          /\ old_costs' = st.old_ref
          /\ new_cow' = st.new_cow
          /\ old_cow' = st.old_cow
          /\ rows' = st.rows
    /\ ek' = ek + 1
    /\ fpc' = "loop"
    /\ UNCHANGED <<pvars, tvars>>

\* line 226
FormatReturn ==
    /\ fpc = "loop"
    /\ ek > Len(event_kinds)
    /\ fpc' = "done"
    /\ UNCHANGED <<new_costs, old_costs, new_cow, old_cow, ek, rows>>
    /\ UNCHANGED <<pvars, tvars>>

(***************************************************************************)
(* Header::to_title and Display for Header.  A string is the sequence of   *)
(* its characters, a character the number of bytes of its UTF-8 encoding.  *)
(***************************************************************************)
MaxDescChars == 40
MaxTitleDescription == 37

NoString == [some |-> FALSE, s |-> <<>>]
SomeString(s) == [some |-> TRUE, s |-> s]

\* str::len, in bytes
RECURSIVE StrLen(_)
StrLen(s) == IF s = <<>> THEN 0 ELSE Head(s) + StrLen(Tail(s))

\* util::truncate_str_utf8: the first len characters
truncate_str_utf8(s, len) == IF Len(s) <= len THEN s ELSE SubSeq(s, 1, len)

\* lines 86-90 and 112-116 with the marker chosen by the maximum alone
TruncationMarkerByMax(truncated, description) ==
    IF StrLen(truncated) < MaxTitleDescription THEN "" ELSE "..."

\* lines 86-90 and 112-116
TruncationMarker(truncated, description) ==
    IF StrLen(truncated) < StrLen(description) THEN "..." ELSE ""

NoTitle == [module_path |-> "", id |-> NoString, description |-> NoString,
            marker |-> "", colored |-> FALSE]

Title(module_path, id, description, marker, colored) ==
    [module_path |-> module_path, id |-> id, description |-> description,
     marker |-> marker, colored |-> colored]

\* Header::to_title, lines 77-98
to_title(h) ==
    IF h.id.some
    THEN IF h.description.some
         THEN LET truncated == truncate_str_utf8(h.description.s, MaxTitleDescription)
              IN Title(h.module_path, h.id, SomeString(truncated),
                       TruncationMarker(truncated, h.description.s), FALSE)
         ELSE Title(h.module_path, h.id, NoString, "", FALSE)
    ELSE Title(h.module_path, NoString, NoString, "", FALSE)

\* Display::fmt for Header, lines 101-124: the same segments, coloured
fmt(h) ==
    IF h.id.some
    THEN IF h.description.some
         THEN LET truncated == truncate_str_utf8(h.description.s, MaxTitleDescription)
              IN Title(h.module_path, h.id, SomeString(truncated),
                       TruncationMarker(truncated, h.description.s), TRUE)
         ELSE Title(h.module_path, h.id, NoString, "", TRUE)
    ELSE Title(h.module_path, NoString, NoString, "", TRUE)

\* descriptions of n characters: ASCII, two-byte, three-byte, mixed
CharPatterns == {"ascii", "two", "three", "mixed", "tail"}
CharAt(pattern, i) ==
    CASE pattern = "ascii" -> 1
      [] pattern = "two" -> 2
      [] pattern = "three" -> 3
      [] pattern = "mixed" -> (i % 4) + 1
      [] OTHER -> IF i >= MaxTitleDescription THEN 4 ELSE 1
DescriptionText(n, pattern) == [i \in 1..n |-> CharAt(pattern, i)]

Descriptions ==
    { DescriptionText(n, pattern) : n \in 0..MaxDescChars, pattern \in CharPatterns }

TitleInit ==
    /\ header \in [module_path : {"module::path"},
                   id : {NoString, SomeString(<<1, 1>>)},
                   description : {NoString} \cup { SomeString(d) : d \in Descriptions }]
    /\ title = NoTitle
    /\ shown = NoTitle
    /\ tpc = "new"

TitleIdle ==
    /\ header = [module_path |-> "", id |-> NoString, description |-> NoString]
    /\ title = NoTitle
    /\ shown = NoTitle
    /\ tpc = "idle"

ToTitle ==
    /\ tpc \in {"new", "shown"}
    /\ title' = to_title(header)
    /\ tpc' = "titled"
    /\ UNCHANGED <<header, shown>>
    /\ UNCHANGED <<pvars, fvars>>

Display ==
    /\ tpc \in {"new", "titled"}
    /\ shown' = fmt(header)
    /\ tpc' = "shown"
    /\ UNCHANGED <<header, title>>
    /\ UNCHANGED <<pvars, fvars>>

(***************************************************************************)
(* Specifications                                                          *)
(***************************************************************************)
Init == ParseInit /\ FormatIdle /\ TitleIdle

Next ==
    \/ \E line \in Lines : FilterComment(line)
    \/ \E line \in Lines : LoopIteration(line)
    \/ Finish

Spec == Init /\ [][Next]_vars

FormatSpecInit == ParseIdle /\ FormatInit /\ TitleIdle

FormatNext ==
    \/ FormatLoop
    \/ FormatReturn

FormatSpec == FormatSpecInit /\ [][FormatNext]_vars

TitleSpecInit == ParseIdle /\ FormatIdle /\ TitleInit

TitleNext ==
    \/ ToTitle
    \/ Display

TitleSpec == TitleSpecInit /\ [][TitleNext]_vars

(***************************************************************************)
(* The report read so far, described line by line without the scanner's    *)
(* state: what a comment, a blank line, a matching fn= line and a cost     *)
(* line are, and which lines lie in a block opened by a matching fn= line. *)
(***************************************************************************)
P == Len(properties.positions_prototype)
K == Len(properties.costs_prototype)

IsCommentLine(l) == ~l.lead /\ Len(l.toks) > 0 /\ l.toks[1].t = "hash"
IsBlankLine(l) == Len(l.toks) = 0
IsFnLine(l) == Len(l.toks) > 0 /\ l.toks[1].t = "fn"
IsMatchingFnLine(l) == IsFnLine(l) /\ l.toks[1].label = sentinel
IsDigitLine(l) == Len(l.toks) > 0 /\ l.toks[1].t = "num"

\* line i comes after a matching fn= line with no blank line in between
InMatchedBlock(rep, i) ==
    \E j \in 1..(i - 1) :
        /\ IsMatchingFnLine(rep[j])
        /\ \A m \in j..i : ~IsBlankLine(rep[m])

\* the fn= line nearest before line i carries the sentinel's label
NearestFnMatches(rep, i) ==
    \E j \in 1..(i - 1) :
        /\ IsMatchingFnLine(rep[j])
        /\ \A m \in (j + 1)..(i - 1) : ~IsFnLine(rep[m])

\* every token that would be read as a counter is a number
WellFormedCostLine(l) ==
    \A i \in 1..K : P + i <= Len(l.toks) => l.toks[P + i].t = "num"

\* the counter a cost line gives for event i
Counter(l, i) == IF P + i <= Len(l.toks) THEN l.toks[P + i].n ELSE 0

Contributing(rep) ==
    { i \in 1..Len(rep) : IsDigitLine(rep[i]) /\ InMatchedBlock(rep, i) }

RECURSIVE SumOver(_, _, _)
SumOver(rep, idx, i) ==
    IF idx = {} THEN 0
    ELSE LET n == CHOOSE x \in idx : TRUE
         IN Counter(rep[n], i) + SumOver(rep, idx \ {n}, i)

ExpectedCosts(rep) == [i \in 1..K |-> SumOver(rep, Contributing(rep), i)]

\* the blocks that start with a matching fn= line
MatchedBlockStarts(rep) ==
    { j \in 1..Len(rep) :
        /\ IsMatchingFnLine(rep[j])
        /\ (j = 1 \/ IsBlankLine(rep[j - 1])) }

LastLine == lines'[Len(lines')]

(***************************************************************************)
(* C1: parse aggregates over all occurrences.  When the scan is over and   *)
(* the report holds a matching fn= line, parse returns Costs whose every   *)
(* declared event is the sum of that event's counters over the cost lines  *)
(* of all the blocks opened by a matching fn= line, not only of the first  *)
(* (stated for reports whose contributing cost lines are well formed).     *)
(***************************************************************************)
C1_AggregatesAllBlocks ==
    (/\ pc = "done"
     /\ \E j \in 1..Len(lines) : IsMatchingFnLine(lines[j])
     /\ \A i \in Contributing(lines) : WellFormedCostLine(lines[i]))
    => /\ result.tag = "Ok"
       /\ result.costs = ExpectedCosts(lines)

\* two disjoint blocks that start with fn=target, one cost line "2" each,
\* no positions: the first event is 4
C1_Witness ==
    /\ pc = "done"
    /\ P = 0
    /\ Cardinality(MatchedBlockStarts(lines)) = 2
    /\ \A j \in MatchedBlockStarts(lines) :
          j < Len(lines) /\ lines[j + 1] = Line(FALSE, <<Num(2)>>)
    /\ Cardinality(Contributing(lines)) = 2
    /\ result.tag = "Ok"
    /\ result.costs[1] = 4

(***************************************************************************)
(* C2: parse fails with the sentinel-not-found error exactly when no       *)
(* non-comment line of the body is a fn= line with a matching label, and   *)
(* then returns no Costs; once a matching fn= line was seen found is true  *)
(* for the rest of the scan and parse returns Costs, the zero prototype    *)
(* when no cost line of a matched block contributed.                        *)
(***************************************************************************)
HasMatch(rep) == \E j \in 1..Len(rep) : IsMatchingFnLine(rep[j])

C2_NotFoundIffNoMatch ==
    /\ found <=> HasMatch(lines)
    /\ pc = "done" =>
        /\ (result.tag = "Err" /\ result.error = "SentinelNotFound")
              <=> ~HasMatch(lines)
        /\ ~HasMatch(lines) => result.costs = <<>>
        /\ HasMatch(lines) => result.tag = "Ok" /\ Len(result.costs) = K
        /\ (HasMatch(lines) /\ Contributing(lines) = {})
              => result.costs = properties.costs_prototype

\* not found although fn=other blocks with cost lines were read
C2_Witness ==
    /\ pc = "done"
    /\ result.tag = "Err"
    /\ result.error = "SentinelNotFound"
    /\ \E j \in 1..Len(lines) : IsFnLine(lines[j])
    /\ Cardinality({ j \in 1..Len(lines) : IsDigitLine(lines[j]) }) >= 2

(***************************************************************************)
(* C3 as claimed: every cost line whose counters are added has, as the     *)
(* nearest preceding fn= line, one whose label matches the sentinel.       *)
(***************************************************************************)
C3_NearestFnMatches ==
    [][costs' # costs => NearestFnMatches(lines', Len(lines'))]_pvars

(***************************************************************************)
(* C3 as amended: every line whose counters are added is a digit-leading   *)
(* line that follows a matching fn= line with no blank line in between;    *)
(* a cost line with no matching fn= line before it in its block never      *)
(* contributes.                                                            *)
(***************************************************************************)
C3_OnlyMatchedBlocks ==
    [][costs' # costs =>
         /\ IsDigitLine(LastLine)
         /\ InMatchedBlock(lines', Len(lines'))]_pvars

\* a cost line of a fn=other block and a cost line of a matched block were
\* read, and only the second one counted
C3_Witness ==
    /\ P = 0
    /\ K = 1
    /\ Len(lines) = 5
    /\ lines[1] = Line(FALSE, <<Fn("other")>>)
    /\ lines[2] = Line(FALSE, <<Num(1), Num(2), Num(1)>>)
    /\ IsBlankLine(lines[3])
    /\ IsMatchingFnLine(lines[4])
    /\ lines[5] = Line(FALSE, <<Num(2)>>)
    /\ costs = <<2>>

(***************************************************************************)
(* C4 as claimed: when a cost line read inside a record has a non-numeric  *)
(* token where a counter is expected, parse returns a MalformedCostLine    *)
(* failure and no Costs.                                                   *)
(***************************************************************************)
MalformedProcessed(rep) ==
    \E i \in Contributing(rep) : ~WellFormedCostLine(rep[i])

C4_MalformedIsFatal ==
    (pc = "done" /\ MalformedProcessed(lines))
    => /\ result.tag = "Err"
       /\ result.error = "MalformedCostLine"

(***************************************************************************)
(* C5: a cost line read inside a record is split on whitespace, its first  *)
(* P tokens are dropped, the i-th token after them is added to the i-th    *)
(* event's counter; events with no token stay unchanged, tokens beyond     *)
(* the K-th are ignored, and a line of P or fewer tokens changes nothing   *)
(* (stated for cost lines whose counter tokens are numbers).               *)
(***************************************************************************)
C5_Step ==
    (/\ lines' # lines
     /\ start_record
     /\ ~IsCommentLine(LastLine)
     /\ IsDigitLine(LastLine)
     /\ WellFormedCostLine(LastLine))
    => /\ \A i \in 1..K : costs'[i] = costs[i] + Counter(LastLine, i)
       /\ Len(LastLine.toks) <= P => costs' = costs

C5_CostLineMapping == [][C5_Step]_pvars

\* one position, two events: "1 2 1" gave 2 and 1, then "2" changed nothing
C5_Witness ==
    /\ P = 1
    /\ K = 2
    /\ Len(lines) = 3
    /\ IsMatchingFnLine(lines[1])
    /\ lines[2] = Line(FALSE, <<Num(1), Num(2), Num(1)>>)
    /\ lines[3] = Line(FALSE, <<Num(2)>>)
    /\ costs = <<2, 1>>

(***************************************************************************)
(* C9: the only step from IN_RECORD to SEEKING is a line that is empty     *)
(* after trimming, and such a line always leads to SEEKING; inside a       *)
(* record every other line (cost line, fn= line matching or not, other     *)
(* non-digit line, comment) keeps IN_RECORD.  A line beginning with '#'    *)
(* changes neither the state, nor found, nor a counter.                    *)
(***************************************************************************)
C9_Step ==
    lines' # lines =>
        /\ (start_record /\ ~start_record') => IsBlankLine(LastLine)
        /\ IsBlankLine(LastLine) => ~start_record'
        /\ (start_record /\ ~IsBlankLine(LastLine)) => start_record'
        /\ IsCommentLine(LastLine) =>
              UNCHANGED <<start_record, found, costs>>

C9_Transitions == [][C9_Step]_pvars

\* still IN_RECORD after a fn=other line, a comment, an indented comment and
\* a cost line
C9_Witness ==
    /\ Len(lines) = 5
    /\ IsMatchingFnLine(lines[1])
    /\ lines[2] = Line(FALSE, <<Fn("other")>>)
    /\ IsCommentLine(lines[3])
    /\ lines[4] = Line(TRUE, <<Hash>>)
    /\ IsDigitLine(lines[5])
    /\ start_record

(***************************************************************************)
(* What format's rows must be, told from the Costs handed in               *)
(***************************************************************************)
KindIndex(kind) == CHOOSE i \in 1..Len(event_kinds) : event_kinds[i] = kind
KindSet == { event_kinds[i] : i \in 1..Len(event_kinds) }

\* a Costs with its derived kinds computed, where they can be
Summarized(c) == make_summary(c).costs
SummarizedOpt(o) == IF o.some THEN SomeCosts(Summarized(o.val)) ELSE o

LookupOpt(o, kind) == IF o.some THEN cost_by_kind(o.val, kind) ELSE Absent

RowsOfKind(kind) == { i \in 1..Len(rows) : rows[i].kind = kind }

\* the rows are in the order of the display list, one per kind present in n
\* or in o and none for the others, each of the case its presence gives
RowsMatchPresence(n, o) ==
    /\ \A i \in 1..Len(rows) : \A j \in (i + 1)..Len(rows) :
          KindIndex(rows[i].kind) < KindIndex(rows[j].kind)
    /\ \A kind \in KindSet :
          LET pn == cost_by_kind(n, kind)
              po == LookupOpt(o, kind)
          IN IF ~pn.some /\ ~po.some
             THEN RowsOfKind(kind) = {}
             ELSE \E i \in RowsOfKind(kind) :
                    /\ RowsOfKind(kind) = {i}
                    /\ rows[i].new =
                          (IF pn.some THEN [text |-> "number", v |-> pn.v]
                           ELSE [text |-> "N/A", v |-> 0])
                    /\ rows[i].old =
                          (IF po.some THEN [text |-> "number", v |-> po.v]
                           ELSE [text |-> "N/A", v |-> 0])
                    /\ (~pn.some \/ ~po.some) =>
                          /\ rows[i].delta = unknown
                          /\ rows[i].pct = NoField
                          /\ rows[i].factor = NoField
                    /\ (pn.some /\ po.some /\ pn.v = po.v) =>
                          /\ rows[i].delta = no_change
                          /\ rows[i].pct = NoField
                          /\ rows[i].factor = NoField
                    /\ (pn.some /\ po.some /\ pn.v # po.v) =>
                          /\ rows[i].delta = ""
                          /\ rows[i].pct # NoField
                          /\ rows[i].factor # NoField

(***************************************************************************)
(* C6 as claimed: format emits, in the display list's order, exactly one   *)
(* row for a kind present in the new Costs or in the old Costs handed to   *)
(* it and none for a kind absent from both, the row's case given by that   *)
(* presence.                                                               *)
(***************************************************************************)
C6_RowsByPresenceInArguments ==
    fpc = "done" => RowsMatchPresence(new_costs, old_costs)

(***************************************************************************)
(* C6 as amended: the same, with presence taken after the derived kinds    *)
(* of a vector that was not yet summarized have been computed (on          *)
(* format's copy): a kind counts as present in a Costs when it is a        *)
(* counter of that Costs or a derived kind its raw counters determine.     *)
(***************************************************************************)
C6_RowsByPresence ==
    fpc = "done" =>
        RowsMatchPresence(Summarized(new_costs), SummarizedOpt(old_costs))

\* Ir in both, Bc only in new, the derived kinds only in old, Ge in neither
C6_Witness ==
    /\ fpc = "done"
    /\ old_costs.some
    /\ DOMAIN new_costs.counters = {"Ir", "Bc"}
    /\ DOMAIN old_costs.val.counters = SummaryInputs
    /\ \E i \in RowsOfKind("Ir") :
          /\ rows[i].new.text = "number"
          /\ rows[i].old = rows[i].new
          /\ rows[i].delta = "No change"
    /\ \E i \in RowsOfKind("Bc") :
          /\ rows[i].new.text = "number"
          /\ rows[i].old.text = "N/A"
          /\ rows[i].delta = "*********"
    /\ \E i \in RowsOfKind("L1hits") :
          /\ rows[i].new.text = "N/A"
          /\ rows[i].old.text = "number"
          /\ rows[i].delta = "*********"
    /\ RowsOfKind("Ge") = {}

(***************************************************************************)
(* C7: in a row of a kind present in both vectors with new # old, the      *)
(* percentage and the factor have the same sign, positive exactly when     *)
(* new > old and negative exactly when new < old; the factor's magnitude   *)
(* is at least 1; both fields are bright red when new > old and bright     *)
(* green when new < old; with old = 0 the percentage is the saturated      *)
(* infinite marker; new = 150, old = 100 gives +50% and factor 1.5 in      *)
(* bright red.                                                             *)
(***************************************************************************)
C7_Row(r) ==
    LET n == r.new.v
        o == r.old.v
        pct == r.pct.text
        fac == r.factor.text
    IN /\ pct.class # "nan" /\ fac.class # "nan"
       /\ pct.sign = fac.sign
       /\ (pct.sign = 1) <=> (n > o)
       /\ (pct.sign = -1) <=> (n < o)
       /\ fac.class = "inf" \/ (fac.class = "finite" /\ fac.num >= fac.den)
       /\ n > o => /\ r.pct.emphasis = "bright_red"
                   /\ r.factor.emphasis = "bright_red"
       /\ n < o => /\ r.pct.emphasis = "bright_green"
                   /\ r.factor.emphasis = "bright_green"
       /\ o = 0 => pct.class = "inf" /\ r.pct.fill = "+" /\ r.pct.unit = ""
       /\ o # 0 => pct.class = "finite" /\ r.pct.unit = "%"
       /\ (n = 150 /\ o = 100) =>
             /\ pct.class = "finite" /\ pct.num = 50 * pct.den
             /\ fac.class = "finite" /\ 2 * fac.num = 3 * fac.den

C7_DeltaSigns ==
    \A i \in 1..Len(rows) :
        (/\ rows[i].new.text = "number"
         /\ rows[i].old.text = "number"
         /\ rows[i].new.v # rows[i].old.v)
        => C7_Row(rows[i])

\* Ir went from 100 to 150 and Bc from a positive count to 0
C7_Witness ==
    /\ fpc = "done"
    /\ \E i \in RowsOfKind("Ir") :
          /\ rows[i].new = [text |-> "number", v |-> 150]
          /\ rows[i].old = [text |-> "number", v |-> 100]
          /\ rows[i].pct.emphasis = "bright_red"
    /\ \E i \in RowsOfKind("Bc") :
          /\ rows[i].new = [text |-> "number", v |-> 0]
          /\ rows[i].old.text = "number"
          /\ rows[i].old.v > 0
          /\ rows[i].factor.text.class = "inf"

(***************************************************************************)
(* C10: format leaves the caller's new_costs and old_costs as they were    *)
(* (counters and summarized flag); the summary is computed on a private    *)
(* copy, only for a vector not yet summarized; and the rows are those      *)
(* format gives for the same vectors already summarized.                   *)
(***************************************************************************)
RECURSIVE RunFormat(_, _)
RunFormat(st, i) ==
    IF i > Len(event_kinds) THEN st
    ELSE RunFormat(FormatEvent(st, event_kinds[i]), i + 1)

C10_Done ==
    fpc = "done" =>
        /\ rows = RunFormat(FormatStart(Summarized(new_costs),
                                        SummarizedOpt(old_costs)), 1).rows
        /\ new_cow.borrowed <=> is_summarized(new_costs)
        /\ old_cow.borrowed <=> (~old_costs.some \/ is_summarized(old_costs.val))
        /\ ~new_cow.borrowed => new_cow.owned = Summarized(new_costs)

C10_FormatIsPure ==
    /\ []C10_Done
    /\ [][new_costs' = new_costs /\ old_costs' = old_costs]_vars

\* an unsummarized vector with the cache counters was formatted: the copy
\* is summarized, the caller's vector is not
C10_Witness ==
    /\ fpc = "done"
    /\ ~is_summarized(new_costs)
    /\ SummaryInputs \subseteq DOMAIN new_costs.counters
    /\ ~new_cow.borrowed
    /\ is_summarized(new_cow.owned)
    /\ RowsOfKind("EstimatedCycles") # {}

(***************************************************************************)
(* C8: with id and description both present, a description of more than    *)
(* 37 characters is rendered as its first 37 characters, whatever their    *)
(* length in bytes, followed by "..."; a description of at most 37         *)
(* characters is rendered unmodified with no marker; the marker is there   *)
(* exactly when the description was shortened.                             *)
(***************************************************************************)
C8_Rendered(out) ==
    (out # NoTitle /\ header.id.some /\ header.description.some) =>
        LET d == header.description.s IN
        /\ out.description.some
        /\ Len(d) > MaxTitleDescription =>
              /\ out.description.s = SubSeq(d, 1, MaxTitleDescription)
              /\ out.marker = "..."
        /\ Len(d) <= MaxTitleDescription =>
              /\ out.description.s = d
              /\ out.marker = ""
        /\ (out.marker = "...") <=> (out.description.s # d)

C8_TitleTruncation == C8_Rendered(title) /\ C8_Rendered(shown)

\* a description of more than 37 multi-byte characters was cut to 37
\* characters, which are more than 37 bytes, and marked
C8_Witness ==
    /\ tpc = "titled"
    /\ header.id.some
    /\ header.description.some
    /\ Len(header.description.s) > MaxTitleDescription
    /\ Len(title.description.s) = MaxTitleDescription
    /\ StrLen(title.description.s) > MaxTitleDescription
    /\ title.marker = "..."

====
